---------------------------- MODULE Spec2Model ----------------------------
(***************************************************************************)
(* A model of streamlit_app.py: the World Bank price extractor             *)
(* (fetch_worldbank_price), the USGS production extractor                  *)
(* (fetch_usgs_world), the 24h data cache around both, and the script run  *)
(* that acquires the two datasets and renders the two panels.              *)
(*                                                                         *)
(* Text is modelled as a sequence of one-character strings so that the     *)
(* regular expressions, substring searches, case folding and stripping of  *)
(* the source are computed, not assumed.                                   *)
(***************************************************************************)
EXTENDS Integers, Sequences, FiniteSets, TLC

VARIABLES
    \* fetch_worldbank_price
    pc,          \* "loop" | "returned" | "raised"
    url_idx,     \* position of the for loop over the candidate URLs (1-based)
    r,           \* the last response received
    target_df,   \* the sheet chosen for extraction (None before any is chosen)
    row,         \* the matched row
    ym_cols,     \* the year-month column labels
    data,        \* the returned series
    requested,   \* the URLs requested so far, in order
    outcomes,    \* how each attempt ended, in order
    \* fetch_usgs_world
    upc,         \* "start" | "fetched" | "returned" | "raised"
    csv,         \* the response to the single CSV request
    branch,      \* "none" | "wide" | "long" | "error"
    usgs_out,    \* the returned table
    \* the script run (data acquisition and the two panels)
    rpc,         \* "price" | "usgs" | "left" | "right" | "expander" | "done" | "crashed"
    price_ok, price_df, usgs_ok, usgs_df,
    latest, prev_m, prev_y, mom, yoy,
    left_panel,  \* "none" | "panel" | "warning"
    right_panel, \* "none" | "panel" | "warning"
    top,         \* the top-producers table of the right panel
    \* st.cache_data around the two fetch functions
    clock,       \* seconds since the process started
    cache,       \* per dataset: the stored value and when it was stored
    cpc,         \* "idle" | "price" | "usgs"
    populated,   \* per dataset: the last successful producer run (value, time)
    last_call    \* the last cached call: when, what had been populated, what it did

priceVars  == <<pc, url_idx, r, target_df, row, ym_cols, data, requested, outcomes>>
usgsVars   == <<upc, csv, branch, usgs_out>>
renderVars == <<rpc, price_ok, price_df, usgs_ok, usgs_df, latest, prev_m, prev_y,
                mom, yoy, left_panel, right_panel, top>>
cacheVars  == <<clock, cache, cpc, populated, last_call>>
vars == <<priceVars, usgsVars, renderVars, cacheVars>>

---------------------------------------------------------------------------
(* Text *)

S_MonthlyPrices == <<"M", "o", "n", "t", "h", "l", "y", " ", "P", "r", "i", "c", "e", "s">>  \* "Monthly Prices"
S_Data == <<"D", "a", "t", "a">>  \* "Data"
S_Notes == <<"N", "o", "t", "e", "s">>  \* "Notes"
S_phosphate == <<"p", "h", "o", "s", "p", "h", "a", "t", "e">>  \* "phosphate"
S_phosphate_rock == <<"p", "h", "o", "s", "p", "h", "a", "t", "e", " ", "r", "o", "c", "k">>  \* "phosphate rock"
S_PHOSPHATE_ROCK == <<"P", "H", "O", "S", "P", "H", "A", "T", "E", " ", "R", "O", "C", "K">>  \* "PHOSPHATE ROCK"
S_Commodity == <<"C", "o", "m", "m", "o", "d", "i", "t", "y">>  \* "Commodity"
S_Country == <<"C", "o", "u", "n", "t", "r", "y">>  \* "Country"
S_CountryName == <<"C", "o", "u", "n", "t", "r", "y", "N", "a", "m", "e">>  \* "CountryName"
S_Year == <<"Y", "e", "a", "r">>  \* "Year"
S_Production == <<"P", "r", "o", "d", "u", "c", "t", "i", "o", "n">>  \* "Production"
S_MineProduction == <<"M", "i", "n", "e", " ", "P", "r", "o", "d", "u", "c", "t", "i", "o", "n">>  \* "Mine Production"
S_Mineproduction == <<"M", "i", "n", "e", " ", "p", "r", "o", "d", "u", "c", "t", "i", "o", "n">>  \* "Mine production"
S_WorldProduction == <<"W", "o", "r", "l", "d", " ", "P", "r", "o", "d", "u", "c", "t", "i", "o", "n">>  \* "World Production"
S_ProductionKt == <<"P", "r", "o", "d", "u", "c", "t", "i", "o", "n", " ", "(", "k", "t", ")">>  \* "Production (kt)"
S_Type == <<"T", "y", "p", "e">>  \* "Type"
S_Item == <<"I", "t", "e", "m">>  \* "Item"
S_2023M01 == <<"2", "0", "2", "3", "M", "0", "1">>  \* "2023M01"
S_2023M02 == <<"2", "0", "2", "3", "M", "0", "2">>  \* "2023M02"
S_2022M01 == <<"2", "0", "2", "2", "M", "0", "1">>  \* "2022M01"
S_2023M13 == <<"2", "0", "2", "3", "M", "1", "3">>  \* "2023M13"
S_2023 == <<"2", "0", "2", "3">>  \* "2023"
S_2023M1 == <<"2", "0", "2", "3", "M", "1">>  \* "2023M1"
S_2020 == <<"2", "0", "2", "0">>  \* "2020"
S_2021 == <<"2", "0", "2", "1">>  \* "2021"
S_2020_padded == <<" ", "2", "0", "2", "0", " ">>  \* " 2020 "
S_Commodity_padded == <<"C", "o", "m", "m", "o", "d", "i", "t", "y", " ">>  \* "Commodity "
S_PhosphateRockMorocco == <<"P", "h", "o", "s", "p", "h", "a", "t", "e", " ", "r", "o", "c", "k">>  \* "Phosphate rock"
S_RockPhosphate == <<"R", "o", "c", "k", " ", "P", "H", "O", "S", "P", "H", "A", "T", "E">>  \* "Rock PHOSPHATE"
S_Urea == <<"U", "r", "e", "a">>  \* "Urea"
S_Potash == <<"P", "o", "t", "a", "s", "h">>  \* "Potash"
S_Morocco == <<"M", "o", "r", "o", "c", "c", "o">>  \* "Morocco"
S_China == <<"C", "h", "i", "n", "a">>  \* "China"
S_dots == <<".", ".">>  \* ".."
S_12 == <<"1", "2">>  \* "12"
S_na == <<"n", "/", "a">>  \* "n/a"
S_nan == <<"n", "a", "n">>  \* "nan"

\* the ASCII letters, upper case to lower case and back
LowerMap ==
    ("A" :> "a") @@ ("B" :> "b") @@ ("C" :> "c") @@ ("D" :> "d") @@ ("E" :> "e") @@ ("F" :> "f") @@
    ("G" :> "g") @@ ("H" :> "h") @@ ("I" :> "i") @@ ("J" :> "j") @@ ("K" :> "k") @@ ("L" :> "l") @@
    ("M" :> "m") @@ ("N" :> "n") @@ ("O" :> "o") @@ ("P" :> "p") @@ ("Q" :> "q") @@ ("R" :> "r") @@
    ("S" :> "s") @@ ("T" :> "t") @@ ("U" :> "u") @@ ("V" :> "v") @@ ("W" :> "w") @@ ("X" :> "x") @@
    ("Y" :> "y") @@ ("Z" :> "z")
UpperMap ==
    ("a" :> "A") @@ ("b" :> "B") @@ ("c" :> "C") @@ ("d" :> "D") @@ ("e" :> "E") @@ ("f" :> "F") @@
    ("g" :> "G") @@ ("h" :> "H") @@ ("i" :> "I") @@ ("j" :> "J") @@ ("k" :> "K") @@ ("l" :> "L") @@
    ("m" :> "M") @@ ("n" :> "N") @@ ("o" :> "O") @@ ("p" :> "P") @@ ("q" :> "Q") @@ ("r" :> "R") @@
    ("s" :> "S") @@ ("t" :> "T") @@ ("u" :> "U") @@ ("v" :> "V") @@ ("w" :> "W") @@ ("x" :> "X") @@
    ("y" :> "Y") @@ ("z" :> "Z")
\* the decimal digits and their values
DigitMap ==
    ("0" :> 0) @@ ("1" :> 1) @@ ("2" :> 2) @@ ("3" :> 3) @@ ("4" :> 4) @@ ("5" :> 5) @@
    ("6" :> 6) @@ ("7" :> 7) @@ ("8" :> 8) @@ ("9" :> 9)
DigitChars == <<"0","1","2","3","4","5","6","7","8","9">>

IsDigit(ch) == ch \in DOMAIN DigitMap
DigitVal(ch) == DigitMap[ch]

LowerCh(ch) == IF ch \in DOMAIN LowerMap THEN LowerMap[ch] ELSE ch
UpperCh(ch) == IF ch \in DOMAIN UpperMap THEN UpperMap[ch] ELSE ch
\* str.lower() / str.upper()
Lower(s) == [i \in 1..Len(s) |-> LowerCh(s[i])]
Upper(s) == [i \in 1..Len(s) |-> UpperCh(s[i])]

\* sub in s
Contains(s, sub) ==
    \E i \in 0..(Len(s) - Len(sub)) : SubSeq(s, i + 1, i + Len(sub)) = sub

IsSpace(ch) == ch \in {" ", "\t", "\n", "\r"}
\* str.strip()
Strip(s) ==
    IF \A i \in 1..Len(s) : IsSpace(s[i]) THEN <<>>
    ELSE LET a == CHOOSE i \in 1..Len(s) :
                     ~IsSpace(s[i]) /\ \A j \in 1..(i - 1) : IsSpace(s[j])
             b == CHOOSE i \in 1..Len(s) :
                     ~IsSpace(s[i]) /\ \A j \in (i + 1)..Len(s) : IsSpace(s[j])
         IN SubSeq(s, a, b)

RECURSIVE DigitsToInt(_)
\* the value of a string of decimal digits
DigitsToInt(s) ==
    IF s = <<>> THEN 0
    ELSE 10 * DigitsToInt(SubSeq(s, 1, Len(s) - 1)) + DigitVal(s[Len(s)])

AllDigits(s) == s # <<>> /\ \A i \in 1..Len(s) : IsDigit(s[i])

\* `$` of Python's re also matches just before a trailing newline
EndsAt(s, n) == Len(s) = n \/ (Len(s) = n + 1 /\ s[n + 1] = "\n")

\* re.match(r"^\d{4}M\d{2}$", c)
MatchYearMonth(c) ==
    /\ EndsAt(c, 7)
    /\ \A i \in {1, 2, 3, 4, 6, 7} : IsDigit(c[i])
    /\ c[5] = "M"

\* re.match(r"^\d{4}$", str(c))
MatchYear(c) ==
    /\ EndsAt(c, 4)
    /\ \A i \in 1..4 : IsDigit(c[i])

---------------------------------------------------------------------------
(* Cells, tables, workbooks *)

Num(n)     == [t |-> "num", v |-> n, s |-> <<>>]
StrCell(x) == [t |-> "str", v |-> 0, s |-> x]
NaN        == [t |-> "nan", v |-> 0, s |-> <<>>]

Table(cols, rws) == [isNone |-> FALSE, columns |-> cols, rows |-> rws]
None_df == [isNone |-> TRUE, columns |-> <<>>, rows |-> <<>>]
NoRow == <<>>

\* sequences over S of length at most n
SeqsUpTo(S, n) == UNION {[1..k -> S] : k \in 0..n}

\* position of label c in a sequence of labels (labels of a parsed table are unique)
IndexOf(cols, c) == CHOOSE i \in 1..Len(cols) : cols[i] = c

\* pd.to_numeric(x, errors="coerce"): numbers stay, strings of digits parse,
\* everything else becomes NaN
ToNumeric(cell) ==
    IF cell.t = "num" THEN cell
    ELSE IF cell.t = "str" /\ AllDigits(cell.s) THEN Num(DigitsToInt(cell.s))
    ELSE NaN

RECURSIVE IntToDigits(_)
IntToDigits(n) ==
    IF n < 10 THEN <<DigitChars[n + 1]>>
    ELSE IntToDigits(n \div 10) \o <<DigitChars[(n % 10) + 1]>>

\* .astype(str) of one cell
AsTypeStr(cell) ==
    IF cell.t = "str" THEN cell.s
    ELSE IF cell.t = "num" THEN IntToDigits(cell.v)
    ELSE S_nan

---------------------------------------------------------------------------
(* fetch_worldbank_price *)

WB_URL_PRIMARY  == "WB_URL_PRIMARY"
WB_URL_FALLBACK == "WB_URL_FALLBACK"

\* the candidates in the opposite order
MutSwappedUrls == <<WB_URL_FALLBACK, WB_URL_PRIMARY>>

\* the tuple the for loop iterates over
CandidateUrls == <<WB_URL_PRIMARY, WB_URL_FALLBACK>>

\* requests.get(url, timeout=60); r.raise_for_status()
FetchOk(resp) == resp.status = "ok"

\* pd.ExcelFile(io.BytesIO(r.content))
WorkbookOk(resp) == resp.valid

\* df.applymap(lambda x: isinstance(x, str) and "phosphate" in x.lower()).any().any()
HasPhosphateCell(df) ==
    \E i \in 1..Len(df.rows) : \E j \in 1..Len(df.rows[i]) :
        /\ df.rows[i][j].t = "str"
        /\ Contains(Lower(df.rows[i][j].s), S_phosphate)

RECURSIVE ScanSheets(_, _, _)
\* the fallback scan over xls.sheet_names, starting at sheet i with target = cur;
\* reading an unreadable sheet raises
ScanSheets(sheets, i, cur) ==
    IF i > Len(sheets) THEN [exc |-> FALSE, df |-> cur]
    ELSE IF ~sheets[i].readable THEN [exc |-> TRUE, df |-> cur]
    ELSE IF HasPhosphateCell(sheets[i].df) THEN [exc |-> FALSE, df |-> sheets[i].df]
    ELSE ScanSheets(sheets, i + 1, cur)

\* target_df = None at the top of each attempt
ResetTarget(old) == None_df

\* the sheet to extract from: "Monthly Prices" when it can be read, else the
\* first sheet with a cell containing "phosphate"
SelectSheet(sheets, old) ==
    LET named == {i \in 1..Len(sheets) : sheets[i].name = S_MonthlyPrices}
        first == CHOOSE i \in named : \A j \in named : i <= j
    IN IF named # {} /\ sheets[first].readable
       THEN [exc |-> FALSE, df |-> sheets[first].df]
       ELSE ScanSheets(sheets, 1, ResetTarget(old))

\* Series.astype(str).str.contains(pat, case=False, na=False) on the first column
RowsContaining(df, pat) ==
    {i \in 1..Len(df.rows) : Contains(Lower(AsTypeStr(df.rows[i][1])), Lower(pat))}

\* the rows matching "phosphate rock", or failing that "phosphate"
MatchingRows(df) ==
    IF RowsContaining(df, S_phosphate_rock) # {}
    THEN RowsContaining(df, S_phosphate_rock)
    ELSE RowsContaining(df, S_phosphate)

\* row.iloc[0]
FirstRow(df, matches) == df.rows[CHOOSE i \in matches : \A j \in matches : i <= j]

\* [c for c in target_df.columns if re.match(r"^\d{4}M\d{2}$", c)]
YmCols(df) == SelectSeq(df.columns, MatchYearMonth)

Date(y, m, d) == [y |-> y, m |-> m, d |-> d]
DateKey(dt) == dt.y * 10000 + dt.m * 100 + dt.d

\* pd.to_datetime(f"{c[:4]}-{c[-2:]}-01"). A month 01..12 gives day 1 of that
\* month. For 13..31 the outcome depends on the date parser in use: it raises, or
\* (lenient) it reads the number as the day of January. Anything else raises.
ToDatetime(c, lenient) ==
    LET yy == SubSeq(c, 1, 4)
        mm == SubSeq(c, Len(c) - 1, Len(c))
    IN IF ~(AllDigits(yy) /\ AllDigits(mm)) THEN [exc |-> TRUE, date |-> Date(0, 0, 0)]
       ELSE IF DigitsToInt(mm) \in 1..12
            THEN [exc |-> FALSE, date |-> Date(DigitsToInt(yy), DigitsToInt(mm), 1)]
       ELSE IF lenient /\ DigitsToInt(mm) \in 13..31
            THEN [exc |-> FALSE, date |-> Date(DigitsToInt(yy), 1, DigitsToInt(mm))]
       ELSE [exc |-> TRUE, date |-> Date(0, 0, 0)]

Point(dt, price) == [date |-> dt, price |-> price]

\* DataFrame.dropna(): the points whose price is not NaN, in order
DropNa(points) == SelectSeq(points, LAMBDA p : p.price.t # "nan")

RECURSIVE InsertByDate(_, _)
InsertByDate(sorted, p) ==
    IF sorted = <<>> THEN <<p>>
    ELSE IF DateKey(p.date) < DateKey(Head(sorted).date) THEN <<p>> \o sorted
    ELSE <<Head(sorted)>> \o InsertByDate(Tail(sorted), p)

RECURSIVE InsertionSort(_)
InsertionSort(points) ==
    IF points = <<>> THEN <<>>
    ELSE InsertByDate(InsertionSort(SubSeq(points, 1, Len(points) - 1)), points[Len(points)])

\* the points left in column order
MutNoSort(points) == points

\* data.sort_values("date").reset_index(drop=True)
SortByDate(points) == InsertionSort(points)

\* the DataFrame built from the year-month columns of the matched row
BuildSeries(df, rw, cols, lenient) ==
    [i \in 1..Len(cols) |->
        Point(ToDatetime(cols[i], lenient).date, ToNumeric(rw[IndexOf(df.columns, cols[i])]))]

\* One pass of the loop body for one response. `old` are the locals as the
\* previous pass left them; the result names how the pass ended and the locals
\* after it.
AttemptUrl(resp, lenient, old) ==
    LET fail(why, t, rw, ym) ==
            [result |-> why, target_df |-> t, row |-> rw, ym_cols |-> ym, data |-> <<>>]
    IN
    IF ~FetchOk(resp) THEN fail("fetch_failed", old.target_df, old.row, old.ym_cols)
    ELSE IF ~WorkbookOk(resp) THEN fail("bad_workbook", old.target_df, old.row, old.ym_cols)
    ELSE
    LET sel == SelectSheet(resp.sheets, old.target_df) IN
    IF sel.exc THEN fail("sheet_error", sel.df, old.row, old.ym_cols)
    ELSE IF sel.df.isNone THEN fail("no_sheet", sel.df, old.row, old.ym_cols)
    ELSE IF sel.df.columns = <<>> THEN fail("no_columns", sel.df, old.row, old.ym_cols)
    ELSE
    LET matches == MatchingRows(sel.df) IN
    IF matches = {} THEN fail("no_row", sel.df, NoRow, old.ym_cols)
    ELSE
    LET rw == FirstRow(sel.df, matches)
        ym == YmCols(sel.df)
    IN
    IF ym = <<>> THEN fail("no_ym_cols", sel.df, rw, ym)
    ELSE IF \E i \in 1..Len(ym) : ToDatetime(ym[i], lenient).exc
         THEN fail("bad_date", sel.df, rw, ym)
    ELSE [result |-> "ok", target_df |-> sel.df, row |-> rw, ym_cols |-> ym,
          data |-> SortByDate(DropNa(BuildSeries(sel.df, rw, ym, lenient)))]

(* The responses the two URLs can give *)

MaxPriceRows == 1

Sheet(name, df) == [name |-> name, readable |-> TRUE, df |-> df]
BadSheet(name)  == [name |-> name, readable |-> FALSE, df |-> None_df]

NoResponse   == [status |-> "none", valid |-> FALSE, sheets |-> <<>>]
ErrorResp    == [status |-> "error", valid |-> FALSE, sheets |-> <<>>]
HttpErrorResp == [status |-> "http_error", valid |-> FALSE, sheets |-> <<>>]
GarbageResp  == [status |-> "ok", valid |-> FALSE, sheets |-> <<>>]
WorkbookResp(sheets) == [status |-> "ok", valid |-> TRUE, sheets |-> sheets]

\* rows: the label cell and the two value cells (numbers, a string of digits,
\* a non-numeric string, an empty cell)
PriceRows == {<<StrCell(S_PhosphateRockMorocco), Num(100), Num(0)>>,
              <<StrCell(S_PhosphateRockMorocco), StrCell(S_dots), StrCell(S_12)>>,
              <<StrCell(S_PhosphateRockMorocco), NaN, StrCell(S_dots)>>,
              <<StrCell(S_RockPhosphate), Num(0), Num(100)>>,
              <<StrCell(S_Urea), Num(100), Num(100)>>}
PriceColumnSets == {<<S_Commodity, S_2023M02, S_2023M01>>,
                    <<S_Commodity, S_2023M01, S_2022M01>>,
                    <<S_Commodity, S_2023M13, S_2023M01>>,
                    <<S_Commodity, S_2023, S_2023M1>>}
PriceTables ==
    {Table(c, rws) : c \in PriceColumnSets, rws \in SeqsUpTo(PriceRows, MaxPriceRows)}
    \cup {Table(<<>>, <<>>)}
NotesTable == Table(<<S_Notes>>, <<<<StrCell(S_Urea)>>>>)
RockTable  == Table(<<S_Commodity, S_2023M02, S_2023M01>>,
                    <<<<StrCell(S_PhosphateRockMorocco), Num(100), Num(0)>>>>)

Workbooks ==
    {<<Sheet(S_MonthlyPrices, t)>> : t \in PriceTables}
    \cup {<<Sheet(S_Data, t)>> : t \in PriceTables}
    \cup {<<Sheet(S_Notes, NotesTable), Sheet(S_Data, t)>> : t \in PriceTables}
    \cup {<<BadSheet(S_MonthlyPrices)>>,
          <<Sheet(S_Data, RockTable), BadSheet(S_MonthlyPrices)>>,
          <<BadSheet(S_MonthlyPrices), Sheet(S_Data, RockTable)>>}

PriceResponses ==
    {ErrorResp, HttpErrorResp, GarbageResp} \cup {WorkbookResp(w) : w \in Workbooks}

\* whether the date parser in use matters for this response: some year-month
\* label has a month outside 01..12
HasOutOfRangeMonth(resp) ==
    \E i \in 1..Len(resp.sheets) : \E j \in 1..Len(resp.sheets[i].df.columns) :
        LET c == resp.sheets[i].df.columns[j] IN
        MatchYearMonth(c) /\ DigitsToInt(SubSeq(c, 6, 7)) \notin 1..12

PriceLocals == [target_df |-> target_df, row |-> row, ym_cols |-> ym_cols]
FreshLocals == [target_df |-> None_df, row |-> NoRow, ym_cols |-> <<>>]

PriceInit ==
    /\ pc = "loop"
    /\ url_idx = 1
    /\ r = NoResponse
    /\ target_df = None_df
    /\ row = NoRow
    /\ ym_cols = <<>>
    /\ data = <<>>
    /\ requested = <<>>
    /\ outcomes = <<>>

\* one pass of `for url in (WB_URL_PRIMARY, WB_URL_FALLBACK)`: request the URL,
\* extract, and either return or go on to the next URL
TryUrl ==
    /\ pc = "loop"
    /\ url_idx <= Len(CandidateUrls)
    /\ \E resp \in PriceResponses :
       \E lenient \in (IF HasOutOfRangeMonth(resp) THEN BOOLEAN ELSE {FALSE}) :
        LET a == AttemptUrl(resp, lenient, PriceLocals) IN
        /\ requested' = Append(requested, CandidateUrls[url_idx])
        /\ r' = resp
        /\ outcomes' = Append(outcomes, a.result)
        /\ target_df' = a.target_df
        /\ row' = a.row
        /\ ym_cols' = a.ym_cols
        /\ IF a.result = "ok"
           THEN /\ data' = a.data
                /\ pc' = "returned"
                /\ url_idx' = url_idx
           ELSE /\ data' = data
                /\ pc' = pc
                /\ url_idx' = url_idx + 1
    /\ UNCHANGED <<usgsVars, renderVars, cacheVars>>

\* raise RuntimeError(...) once the loop has run out of URLs
RaiseExhausted ==
    /\ pc = "loop"
    /\ url_idx > Len(CandidateUrls)
    /\ pc' = "raised"
    /\ UNCHANGED <<url_idx, r, target_df, row, ym_cols, data, requested, outcomes>>
    /\ UNCHANGED <<usgsVars, renderVars, cacheVars>>

---------------------------------------------------------------------------
(* fetch_usgs_world *)

HasColumn(df, name) == \E i \in 1..Len(df.columns) : df.columns[i] = name

\* df[name] of row i
CellAt(df, i, name) == df.rows[i][IndexOf(df.columns, name)]

\* df.columns = [c.strip() for c in df.columns]
StripColumns(df) ==
    Table([i \in 1..Len(df.columns) |-> Strip(df.columns[i])], df.rows)

\* df[df["Commodity"].astype(str).str.upper().str.contains("PHOSPHATE ROCK")]
FilterCommodity(df) ==
    Table(df.columns,
          SelectSeq(df.rows,
                    LAMBDA rw : Contains(Upper(AsTypeStr(rw[IndexOf(df.columns, S_Commodity)])),
                                         S_PHOSPHATE_ROCK)))

candidates == <<S_Production, S_MineProduction, S_Mineproduction, S_WorldProduction,
                S_ProductionKt>>

NoColumn == <<>>

\* next((c for c in candidates if c in df.columns), None)
ValueCol(df) ==
    LET present == {i \in 1..Len(candidates) : HasColumn(df, candidates[i])}
    IN IF present = {} THEN NoColumn
       ELSE candidates[CHOOSE i \in present : \A j \in present : i <= j]

\* [c for c in df.columns if re.match(r"^\d{4}$", str(c))]
YearCols(df) == SelectSeq(df.columns, MatchYear)

\* the columns of df other than those in cols, in order
OtherCols(df, cols) ==
    SelectSeq(df.columns, LAMBDA c : \A j \in 1..Len(cols) : cols[j] # c)

RECURSIVE Flatten(_)
Flatten(ss) == IF ss = <<>> THEN <<>> ELSE Head(ss) \o Flatten(Tail(ss))

\* df.melt(id_vars=..., value_vars=year_cols, var_name="Year", value_name="Production"):
\* for each year column in turn, one record per row
Melt(df, year_cols) ==
    LET ids == OtherCols(df, year_cols)
        rec(i, c) == [k \in 1..Len(ids) |-> CellAt(df, i, ids[k])]
                     \o <<StrCell(c), CellAt(df, i, c)>>
    IN Table(ids \o <<S_Year, S_Production>>,
             Flatten([j \in 1..Len(year_cols) |->
                         [i \in 1..Len(df.rows) |-> rec(i, year_cols[j])]]))

\* df[name] = pd.to_numeric(df[name], errors="coerce")
CoerceColumn(df, name) ==
    LET k == IndexOf(df.columns, name)
    IN Table(df.columns,
             [i \in 1..Len(df.rows) |-> [df.rows[i] EXCEPT ![k] = ToNumeric(@)]])

\* df.rename(columns={old: new}); a label that is absent is left alone
Rename(df, old, new) ==
    Table([i \in 1..Len(df.columns) |-> IF df.columns[i] = old THEN new ELSE df.columns[i]],
          df.rows)

\* one missing value empties the table
MutDropTableOnNa(df, names) ==
    IF \E i \in 1..Len(df.rows) : \E n \in names :
          df.rows[i][IndexOf(df.columns, n)].t = "nan"
    THEN Table(df.columns, <<>>)
    ELSE df

\* df.dropna(subset=names)
DropNaSubset(df, names) ==
    Table(df.columns,
          SelectSeq(df.rows,
                    LAMBDA rw : \A n \in names : rw[IndexOf(df.columns, n)].t # "nan"))

\* the wide branch: melt the year columns, coerce, rename, drop
WideBranch(df, year_cols) ==
    DropNaSubset(
        Rename(CoerceColumn(CoerceColumn(Melt(df, year_cols), S_Year), S_Production),
               S_Country, S_CountryName),
        {S_Production, S_Year})

\* the long branch: rename, coerce Year when there is one, coerce and rename the
\* value column, drop the rows without a production
LongBranch(df, value_col) ==
    LET renamed == Rename(df, S_Country, S_CountryName)
        withYear == IF HasColumn(renamed, S_Year) THEN CoerceColumn(renamed, S_Year)
                    ELSE renamed
    IN DropNaSubset(Rename(CoerceColumn(withYear, value_col), value_col, S_Production),
                    {S_Production})

\* the body of fetch_usgs_world after the request: which branch it takes and
\* what it returns
ExtractUsgs(raw) ==
    LET stripped == StripColumns(raw) IN
    IF ~HasColumn(stripped, S_Commodity)
    THEN [branch |-> "error", raised |-> TRUE, out |-> None_df]
    ELSE
    LET df == FilterCommodity(stripped)
        value_col == ValueCol(df)
        year_cols == YearCols(df)
    IN IF value_col = NoColumn
       THEN IF year_cols # <<>>
            THEN [branch |-> "wide", raised |-> FALSE, out |-> WideBranch(df, year_cols)]
            ELSE [branch |-> "error", raised |-> TRUE, out |-> None_df]
       ELSE [branch |-> "long", raised |-> FALSE, out |-> LongBranch(df, value_col)]

(* The responses the CSV URL can give *)

MaxUsgsRows == 2

NoCsv == [status |-> "none", df |-> None_df]
CsvError == [status |-> "error", df |-> None_df]
CsvOk(df) == [status |-> "ok", df |-> df]

\* rows: commodity, country, and two cells that are a year and a production or
\* two productions depending on the header
UsgsRows ==
    {<<StrCell(S_PhosphateRockMorocco), StrCell(c), y, p>> :
        c \in {S_Morocco, S_China},
        y \in {Num(2020), Num(2021), StrCell(S_na)},
        p \in {Num(30), StrCell(S_na)}}
    \cup {<<StrCell(S_Potash), StrCell(S_China), Num(2021), Num(30)>>}

UsgsColumnSets ==
    {<<S_Commodity, S_Country, S_Year, S_Production>>,
     <<S_Commodity, S_Country, S_2020, S_2021>>,
     <<S_Commodity, S_Country, S_2020, S_Production>>,
     <<S_Commodity, S_Country, S_Type, S_Production>>,
     <<S_Commodity, S_Country, S_Year, S_Type>>,
     <<S_Commodity, S_Country, S_Year, S_Mineproduction>>,
     <<S_Commodity_padded, S_Country, S_2020_padded, S_2021>>,
     <<S_Item, S_Country, S_2020, S_2021>>}

UsgsTables(n) == {Table(c, rws) : c \in UsgsColumnSets, rws \in SeqsUpTo(UsgsRows, n)}

UsgsResponses == {CsvError} \cup {CsvOk(t) : t \in UsgsTables(MaxUsgsRows)}

UsgsInit ==
    /\ upc = "start"
    /\ csv = NoCsv
    /\ branch = "none"
    /\ usgs_out = None_df

\* r = requests.get(USGS_WORLD_CSV, timeout=60); r.raise_for_status()
RequestCsv ==
    /\ upc = "start"
    /\ \E resp \in UsgsResponses :
        /\ csv' = resp
        /\ upc' = IF resp.status = "ok" THEN "fetched" ELSE "raised"
    /\ UNCHANGED <<branch, usgs_out>>
    /\ UNCHANGED <<priceVars, renderVars, cacheVars>>

\* the rest of the function: parse, filter, choose the branch, return or raise
ParseAndExtract ==
    /\ upc = "fetched"
    /\ LET e == ExtractUsgs(csv.df) IN
        /\ branch' = e.branch
        /\ usgs_out' = e.out
        /\ upc' = IF e.raised THEN "raised" ELSE "returned"
    /\ UNCHANGED csv
    /\ UNCHANGED <<priceVars, renderVars, cacheVars>>

---------------------------------------------------------------------------
(* The script run: data acquisition and the two panels *)

\* what fetch_worldbank_price can return: the series of every response that
\* extracts (from whichever URL, fresh or from the cache)
PriceReturns ==
    {AttemptUrl(resp, l, FreshLocals).data : 
        <<resp, l>> \in {q \in PriceResponses \X BOOLEAN :
                            AttemptUrl(q[1], q[2], FreshLocals).result = "ok"}}

MaxRenderRows == 2

\* what fetch_usgs_world can return
UsgsReturns ==
    {ExtractUsgs(t).out : t \in {u \in UsgsTables(MaxRenderRows) : ~ExtractUsgs(u).raised}}

NoPoint == Point(Date(0, 0, 0), NaN)
Absent == [kind |-> "absent", n |-> 0, d |-> 1]

\* (new - old) / old * 100 on numpy scalars: a zero divisor gives inf, -inf or
\* nan (with a warning), not an exception. A finite result is kept as the
\* fraction n/d.
Pct(new, old) ==
    IF old = 0
    THEN [kind |-> IF new > 0 THEN "inf" ELSE IF new < 0 THEN "-inf" ELSE "nan",
          n |-> 0, d |-> 1]
    ELSE [kind |-> "num", n |-> (new - old) * 100, d |-> old]

\* latest["date"] - pd.DateOffset(years=1)
YearBefore(dt) == Date(dt.y - 1, dt.m, dt.d)

\* the metrics block of the left panel; raised when .iloc[-1] finds no row
PriceMetrics(df) ==
    LET clean == DropNa(df) IN
    IF clean = <<>>
    THEN [raised |-> TRUE, latest |-> NoPoint, prev_m |-> NoPoint, prev_y |-> <<>>,
          mom |-> Absent, yoy |-> Absent]
    ELSE
    LET lt == clean[Len(clean)]
        pm == IF Len(df) >= 2 THEN clean[Len(clean) - 1] ELSE NoPoint
        py == SelectSeq(df, LAMBDA p : p.date = YearBefore(lt.date))
    IN [raised |-> FALSE, latest |-> lt, prev_m |-> pm, prev_y |-> py,
        mom |-> IF pm # NoPoint THEN Pct(lt.price.v, pm.price.v) ELSE Absent,
        yoy |-> IF py # <<>> THEN Pct(lt.price.v, py[1].price.v) ELSE Absent]

RECURSIVE SumProduction(_, _)
\* the sum of the Production cells of the given rows
SumProduction(df, rws) ==
    IF rws = <<>> THEN 0
    ELSE Head(rws)[IndexOf(df.columns, S_Production)].v + SumProduction(df, Tail(rws))

HEAD_N == 10

\* the top-producers table: production summed per country for the latest year,
\* the ten largest
TopProducers(df, latest_year) ==
    LET rws == SelectSeq(df.rows,
                         LAMBDA rw : rw[IndexOf(df.columns, S_Year)] = Num(latest_year))
        countries == {rws[i][IndexOf(df.columns, S_CountryName)] : i \in 1..Len(rws)}
        groups == {[CountryName |-> c,
                    Production |-> SumProduction(df,
                        SelectSeq(rws, LAMBDA rw : rw[IndexOf(df.columns, S_CountryName)] = c))]
                   : c \in countries}
    IN {g \in groups : Cardinality({h \in groups : h.Production > g.Production}) < HEAD_N}

\* the right panel's computation; raised when usgs_df has no Year column, no
\* numeric year at all (int(nan)), or no CountryName column
ProducersPanel(df) ==
    IF ~HasColumn(df, S_Year) THEN [raised |-> TRUE, top |-> {}]
    ELSE
    LET years == {df.rows[i][IndexOf(df.columns, S_Year)].v :
                     i \in {k \in 1..Len(df.rows) :
                               df.rows[k][IndexOf(df.columns, S_Year)].t = "num"}}
    IN IF years = {} THEN [raised |-> TRUE, top |-> {}]
       ELSE IF ~HasColumn(df, S_CountryName) THEN [raised |-> TRUE, top |-> {}]
       ELSE [raised |-> FALSE,
             top |-> TopProducers(df, CHOOSE y \in years : \A z \in years : z <= y)]

RenderInit ==
    /\ rpc = "price"
    /\ price_ok = TRUE
    /\ price_df = <<>>
    /\ usgs_ok = TRUE
    /\ usgs_df = None_df
    /\ latest = NoPoint
    /\ prev_m = NoPoint
    /\ prev_y = <<>>
    /\ mom = Absent
    /\ yoy = Absent
    /\ left_panel = "none"
    /\ right_panel = "none"
    /\ top = {}

\* try: price_df = fetch_worldbank_price() / except: price_ok = False
AcquirePrice ==
    /\ rpc = "price"
    /\ \/ \E s \in PriceReturns : price_ok' = TRUE /\ price_df' = s
       \/ price_ok' = FALSE /\ price_df' = price_df
    /\ rpc' = "usgs"
    /\ UNCHANGED <<usgs_ok, usgs_df, latest, prev_m, prev_y, mom, yoy,
                   left_panel, right_panel, top>>
    /\ UNCHANGED <<priceVars, usgsVars, cacheVars>>

\* try: usgs_df = fetch_usgs_world() / except: usgs_ok = False
AcquireUsgs ==
    /\ rpc = "usgs"
    /\ \/ \E t \in UsgsReturns : usgs_ok' = TRUE /\ usgs_df' = t
       \/ usgs_ok' = FALSE /\ usgs_df' = usgs_df
    /\ rpc' = "left"
    /\ UNCHANGED <<price_ok, price_df, latest, prev_m, prev_y, mom, yoy,
                   left_panel, right_panel, top>>
    /\ UNCHANGED <<priceVars, usgsVars, cacheVars>>

\* with left: the metrics and the chart, or the warning. An exception in the
\* block ends the script run.
LeftPanel ==
    /\ rpc = "left"
    /\ IF price_ok
       THEN LET m == PriceMetrics(price_df) IN
            /\ latest' = m.latest
            /\ prev_m' = m.prev_m
            /\ prev_y' = m.prev_y
            /\ mom' = m.mom
            /\ yoy' = m.yoy
            /\ left_panel' = IF m.raised THEN left_panel ELSE "panel"
            /\ rpc' = IF m.raised THEN "crashed" ELSE "right"
       ELSE /\ left_panel' = "warning"
            /\ rpc' = "right"
            /\ UNCHANGED <<latest, prev_m, prev_y, mom, yoy>>
    /\ UNCHANGED <<price_ok, price_df, usgs_ok, usgs_df, right_panel, top>>
    /\ UNCHANGED <<priceVars, usgsVars, cacheVars>>

\* with right: the top-producers chart, or the warning
RightPanel ==
    /\ rpc = "right"
    /\ IF usgs_ok
       THEN LET p == ProducersPanel(usgs_df) IN
            /\ top' = p.top
            /\ right_panel' = IF p.raised THEN right_panel ELSE "panel"
            /\ rpc' = IF p.raised THEN "crashed" ELSE "expander"
       ELSE /\ right_panel' = "warning"
            /\ rpc' = "expander"
            /\ UNCHANGED top
    /\ UNCHANGED <<price_ok, price_df, usgs_ok, usgs_df, latest, prev_m, prev_y,
                   mom, yoy, left_panel>>
    /\ UNCHANGED <<priceVars, usgsVars, cacheVars>>

\* the raw-tables expander and the notes: nothing here can fail
Expander ==
    /\ rpc = "expander"
    /\ rpc' = "done"
    /\ UNCHANGED <<price_ok, price_df, usgs_ok, usgs_df, latest, prev_m, prev_y,
                   mom, yoy, left_panel, right_panel, top>>
    /\ UNCHANGED <<priceVars, usgsVars, cacheVars>>

---------------------------------------------------------------------------
(* st.cache_data(ttl=24*3600) around the two fetch functions, over reruns *)

\* the ttl of both decorators, in seconds
TTL == 24 * 3600

MaxHours == 50
MaxSnapshots == 2

\* how far the clock moves between two observations, in seconds
TickSteps == {12 * 3600, 23 * 3600}

\* a producer run fails, or returns the dataset as published upstream at the
\* time (named by its snapshot number)
Failure == [ok |-> FALSE, v |-> 0]
Success(n) == [ok |-> TRUE, v |-> n]
ProducerOutcomes == {Failure} \cup {Success(n) : n \in 1..MaxSnapshots}

NoEntry == [present |-> FALSE, value |-> 0, time |-> 0]
Entry(v, t) == [present |-> TRUE, value |-> v, time |-> t]

\* an entry is served while it is younger than the ttl
IsFresh(entry, now) == entry.present /\ now - entry.time < TTL

\* whatever the producer did is stored
MutStoreAlways(entry, outcome, now) == Entry(outcome.v, now)

\* what the cache keeps after the producer ran: a result is stored with the
\* time; an exception stores nothing
StoreResult(entry, outcome, now) ==
    IF ~outcome.ok THEN entry ELSE Entry(outcome.v, now)

\* a call of a function wrapped in st.cache_data at time `now`; `outcome` is what
\* the producer would do if it ran
CachedCall(entry, outcome, now) ==
    IF IsFresh(entry, now)
    THEN [invoked |-> FALSE, raised |-> FALSE, value |-> entry.value, entry |-> entry]
    ELSE [invoked |-> TRUE, raised |-> ~outcome.ok, value |-> outcome.v,
          entry |-> StoreResult(entry, outcome, now)]

NoCall == [key |-> "none", at |-> 0, before |-> NoEntry, invoked |-> FALSE,
           raised |-> FALSE, value |-> 0]

CacheInit ==
    /\ clock = 0
    /\ cache = [price |-> NoEntry, usgs |-> NoEntry]
    /\ populated = [price |-> NoEntry, usgs |-> NoEntry]
    /\ cpc = "idle"
    /\ last_call = NoCall

\* time passes
Tick ==
    /\ \E step \in TickSteps :
        /\ clock + step <= MaxHours * 3600
        /\ clock' = clock + step
    /\ UNCHANGED <<cache, populated, cpc, last_call>>
    /\ UNCHANGED <<priceVars, usgsVars, renderVars>>

\* a rerun of the script starts (a page load or a reload)
StartRun ==
    /\ cpc = "idle"
    /\ cpc' = "price"
    /\ UNCHANGED <<clock, cache, populated, last_call>>
    /\ UNCHANGED <<priceVars, usgsVars, renderVars>>

\* one dataset's try/except around its cached fetch function
CallCached(key, outcome) ==
    LET c == CachedCall(cache[key], outcome, clock) IN
    /\ cache' = [cache EXCEPT ![key] = c.entry]
    /\ populated' = IF c.invoked /\ ~c.raised
                    THEN [populated EXCEPT ![key] = Entry(c.value, clock)]
                    ELSE populated
    /\ last_call' = [key |-> key, at |-> clock, before |-> populated[key],
                     invoked |-> c.invoked, raised |-> c.raised, value |-> c.value]

\* price_ok, price_df = True, None / try: price_df = fetch_worldbank_price()
CallPrice ==
    /\ cpc = "price"
    /\ \E outcome \in ProducerOutcomes : CallCached("price", outcome)
    /\ cpc' = "usgs"
    /\ UNCHANGED clock
    /\ UNCHANGED <<priceVars, usgsVars, renderVars>>

\* usgs_ok, usgs_df = True, None / try: usgs_df = fetch_usgs_world()
CallUsgs ==
    /\ cpc = "usgs"
    /\ \E outcome \in ProducerOutcomes : CallCached("usgs", outcome)
    /\ cpc' = "idle"
    /\ UNCHANGED clock
    /\ UNCHANGED <<priceVars, usgsVars, renderVars>>

---------------------------------------------------------------------------
(* Specifications *)

PriceNext == TryUrl \/ RaiseExhausted
UsgsNext == RequestCsv \/ ParseAndExtract
RenderNext == AcquirePrice \/ AcquireUsgs \/ LeftPanel \/ RightPanel \/ Expander
CacheNext == Tick \/ StartRun \/ CallPrice \/ CallUsgs

Init == PriceInit /\ UsgsInit /\ RenderInit /\ CacheInit

\* fetch_worldbank_price, called once
SpecPrice == Init /\ [][PriceNext]_vars
\* fetch_usgs_world, called once
SpecUsgs == Init /\ [][UsgsNext]_vars
\* one run of the script from data acquisition to the end of the page
SpecRender == Init /\ [][RenderNext]_vars
\* the two cached fetches over successive runs of the script
SpecCache == Init /\ [][CacheNext]_vars

\* all four together
Next == PriceNext \/ UsgsNext \/ RenderNext \/ CacheNext
Spec == Init /\ [][Next]_vars

---------------------------------------------------------------------------
(* Properties *)

AttemptFailures == {"fetch_failed", "bad_workbook", "sheet_error", "no_sheet",
                    "no_columns", "no_row", "no_ym_cols", "bad_date"}

\* C1: the URLs are requested in priority order, primary then fallback; a later
\* URL is requested only after every earlier attempt failed at some step; the
\* function returns at the first attempt that extracts, and what it returns is
\* what extraction from that URL's response alone (with no earlier attempt
\* before it) produces.
C1_PriorityOrderAndFallback ==
    /\ requested = SubSeq(<<WB_URL_PRIMARY, WB_URL_FALLBACK>>, 1, Len(requested))
    /\ Len(outcomes) = Len(requested)
    /\ \A i \in 1..Len(outcomes) :
          IF i = Len(outcomes) /\ pc = "returned"
          THEN outcomes[i] = "ok"
          ELSE outcomes[i] \in AttemptFailures
    /\ pc = "returned" =>
          \E lenient \in BOOLEAN :
              LET alone == AttemptUrl(r, lenient, FreshLocals)
              IN alone.result = "ok" /\ data = alone.data
    /\ pc = "raised" => Len(requested) = 2

\* C1 witness: the primary failed after a sheet and a row were found (no
\* year-month column), and the series came from the fallback.
C1_Witness ==
    /\ pc = "returned"
    /\ requested = <<WB_URL_PRIMARY, WB_URL_FALLBACK>>
    /\ outcomes = <<"no_ym_cols", "ok">>
    /\ Len(data) = 2

\* C2: fetch_worldbank_price never returns an empty series.
C2_NeverReturnsEmpty == pc = "returned" => data # <<>>

\* the positions of the columns of df that are labelled as a year-month
YmPositions(df) == {j \in 1..Len(df.columns) : MatchYearMonth(df.columns[j])}

Filtered == FilterCommodity(StripColumns(csv.df))

\* a column named "Year" in any letter case
HasYearColumn(df) == \E i \in 1..Len(df.columns) : Lower(df.columns[i]) = Lower(S_Year)

\* the layout is Unknown: no bare-year column, and not both a Year column and a
\* production column
UnknownLayout(df) ==
    /\ YearCols(df) = <<>>
    /\ ~(HasYearColumn(df) /\ ValueCol(df) # NoColumn)

\* C4: fetch_usgs_world never returns a table for an Unknown layout.
C4_UnknownLayoutFails == upc = "returned" => ~UnknownLayout(Filtered)

\* C5: whenever the reference price of a percentage is 0, the percentage is absent.
C5_ZeroDivisorGivesAbsent ==
    left_panel = "panel" =>
        /\ (prev_m # NoPoint /\ prev_m.price.v = 0) => mom = Absent
        /\ (prev_y # <<>> /\ prev_y[1].price.v = 0) => yoy = Absent

\* C6: a cached call invokes the producer exactly when no successful producer
\* run of that dataset is younger than the ttl; otherwise it returns the value
\* of that run without raising; and a call that raised left nothing in the
\* cache that a call at the same time would be served from.
C6_CacheContract ==
    last_call.key # "none" =>
        LET fresh == /\ last_call.before.present
                     /\ last_call.at - last_call.before.time < 24 * 3600
        IN /\ last_call.invoked <=> ~fresh
           /\ fresh => (~last_call.raised /\ last_call.value = last_call.before.value)
           /\ last_call.raised => ~IsFresh(cache[last_call.key], last_call.at)

\* C6 witness: a dataset was populated, the ttl elapsed, and the next call
\* invoked the producer again.
C6_Witness ==
    /\ last_call.key = "price"
    /\ last_call.before.present
    /\ last_call.at - last_call.before.time >= 24 * 3600
    /\ last_call.invoked

\* C7: when a script run has ended and exactly one of the two fetches failed,
\* the failed dataset shows its warning and the other dataset's panel is
\* rendered.
C7_OneFailureKeepsOtherPanel ==
    rpc \in {"done", "crashed"} =>
        /\ (~price_ok /\ usgs_ok) => (left_panel = "warning" /\ right_panel = "panel")
        /\ (price_ok /\ ~usgs_ok) => (left_panel = "panel" /\ right_panel = "warning")

\* the (row, year column) pairs of the filtered table whose cell is numeric
NumericPairs(df) ==
    {q \in (1..Len(df.rows)) \X (1..Len(df.columns)) :
        MatchYear(df.columns[q[2]]) /\ ToNumeric(df.rows[q[1]][q[2]]).t = "num"}

\* the record the pair (row i, year column j) stands for
PairRecord(df, q) ==
    [country |-> CellAt(df, q[1], S_Country),
     year |-> Num(DigitsToInt(df.columns[q[2]])),
     production |-> ToNumeric(df.rows[q[1]][q[2]])]

\* record k of a returned table
OutRecord(out, k) ==
    [country |-> CellAt(out, k, S_CountryName),
     year |-> CellAt(out, k, S_Year),
     production |-> CellAt(out, k, S_Production)]

\* C8: the wide branch returns exactly one record per (row, year column) pair
\* whose cell is numeric, carrying that row's country, that column's year as a
\* number and that cell's value; a non-numeric cell removes only its own pair.
C8_MeltOneRecordPerNumericCell ==
    (upc = "returned" /\ branch = "wide") =>
        LET pairs == NumericPairs(Filtered) IN
        /\ Len(usgs_out.rows) = Cardinality(pairs)
        /\ \A q \in pairs :
              Cardinality({k \in 1..Len(usgs_out.rows) :
                              OutRecord(usgs_out, k) = PairRecord(Filtered, q)})
              = Cardinality({p \in pairs : PairRecord(Filtered, p) = PairRecord(Filtered, q)})

\* C8 witness: two rows and two year columns, every cell numeric, four records.
C8_Witness ==
    /\ upc = "returned"
    /\ branch = "wide"
    /\ Len(Filtered.rows) = 2
    /\ Len(YearCols(Filtered)) = 2
    /\ Len(usgs_out.rows) = 4

\* C9: a filtered table with at least one bare four-digit-year column is
\* melted (the wide branch), whatever other columns it has.
C9_YearColumnsMeanWide ==
    (upc = "returned" /\ YearCols(Filtered) # <<>>) => branch = "wide"

\* C10: every record the long branch returns from a table with a Year column
\* has a numeric year and a numeric production.
C10_LongRecordsNumeric ==
    (upc = "returned" /\ branch = "long" /\ HasColumn(usgs_out, S_Year)) =>
        \A k \in 1..Len(usgs_out.rows) :
            /\ CellAt(usgs_out, k, S_Year).t = "num"
            /\ CellAt(usgs_out, k, S_Production).t = "num"

=============================================================================
